---- MODULE Spec2Model ----
(***************************************************************************)
(* pymanoid: rigid bodies wrapping an OpenRAVE KinBody (body.py) and the   *)
(* link position / pose tasks of the IK loop (tasks/link.py).              *)
(*                                                                         *)
(* Numbers.  Floats are modelled by integers on which the code's           *)
(* arithmetic is exact:                                                    *)
(*   - an entry x of any vector (a translation, a velocity, an             *)
(*     acceleration, a quaternion, a pose, a literal target of any         *)
(*     length) is stored as One*x: <<1>> is array([0.2]), a unit           *)
(*     quaternion is an integer 4-vector of squared norm One*One, and a    *)
(*     pose has one scale over its seven entries;                          *)
(*   - an entry r of a rotation block is stored as One*One*r;              *)
(*   - an angle t is stored as <<One*One*cos(t), One*One*sin(t)>>;         *)
(*   - a duration dt, an angular velocity omega and the multiplier         *)
(*     _oppose_quat are plain integers.                                    *)
(* A transform is [R |-> 3x3 block, p |-> translation]; a pose is the      *)
(* 7-vector <<q0,q1,q2,q3,x,y,z>> of the OpenRAVE convention.              *)
(***************************************************************************)
EXTENDS Integers, Sequences, FiniteSets, TLC

VARIABLES
    rave,        \* rave[b]: the transform the engine holds for body b
    heap,        \* numpy arrays holding velocities: id -> 3-vector, <<>> when free
    pd_ref,      \* id of the array bound to Point.__pd of the target point
    caller_ref,  \* id of the array the caller of set_velocity / pd holds, 0: none
    alive,       \* the link's Body object has not been finalized by __del__
    removes,     \* number of env.Remove(self.rave) calls issued for the link
    task,        \* the constructed task: [type, target, arr]
    last,        \* name of the operation executed last
    ret          \* what the last operation returned: [status, val, raw]

vars == <<rave, heap, pd_ref, caller_ref, alive, removes, task, last, ret>>

(***************************************************************************)
(* Bounds of the model.                                                    *)
(***************************************************************************)
\* translation coordinates are drawn from 0..MaxCoord (units of 1/One)
MaxCoord == 1
\* kinematic coordinates (integrated positions, velocities) stay in -MaxKin..MaxKin
MaxKin == 2
\* durations dt are drawn from 0..MaxDt
MaxDt == 1
\* explicit remove() calls on one body
MaxRemove == 2
\* literal targets have at most MaxDim + 3 entries
MaxDim == 1
\* entries of a rotation block drifting under apply_twist stay within MaxDrift units
MaxDrift == 2

\* the integer standing for 1.0 in an entry of a vector
One == 5

UnitSq == One * One

(***************************************************************************)
(* numpy vectors                                                           *)
(***************************************************************************)
Vec3(S) == {<<x, y, z>> : x \in S, y \in S, z \in S}

vadd(a, b) == [i \in 1..Len(a) |-> a[i] + b[i]]

vsub(a, b) == [i \in 1..Len(a) |-> a[i] - b[i]]

vscale(a, k) == [i \in 1..Len(a) |-> a[i] * k]

vmul(a, b) == [i \in 1..Len(a) |-> a[i] * b[i]]

\* dot(a, a) of the orientation block a[0:4]
dot4(a) == a[1] * a[1] + a[2] * a[2] + a[3] * a[3] + a[4] * a[4]

\* x[0:4] and x[4:7] of a 7-vector
quat_of(x) == <<x[1], x[2], x[3], x[4]>>

trans_of(x) == <<x[5], x[6], x[7]>>

zeros3 == <<0, 0, 0>>

\* pdd * .5, exact on the even accelerations the model draws
half(a) == [i \in 1..Len(a) |-> a[i] \div 2]

matmul(A, B) ==
    [i \in 1..3 |-> [j \in 1..3 |->
        A[i][1] * B[1][j] + A[i][2] * B[2][j] + A[i][3] * B[3][j]]]

madd(A, B) == [i \in 1..3 |-> [j \in 1..3 |-> A[i][j] + B[i][j]]]

mscale(A, k) == [i \in 1..3 |-> [j \in 1..3 |-> A[i][j] * k]]

Identity3 == <<<<UnitSq, 0, 0>>, <<0, UnitSq, 0>>, <<0, 0, UnitSq>>>>

(***************************************************************************)
(* The engine (openravepy) and the rotations module, as body.py uses them. *)
(***************************************************************************)
\* every unit quaternion of the integer grid
UnitQuats ==
    {q \in {<<a, b, c, d>> : a \in -One..One, b \in -One..One,
                              c \in -One..One, d \in -One..One} : dot4(q) = UnitSq}

\* rotation block of a unit quaternion (openravepy.matrixFromPose, rotation part)
matrixFromQuat(q) ==
    LET a == q[1]
        b == q[2]
        c == q[3]
        d == q[4]
    IN  << <<a*a + b*b - c*c - d*d, 2*(b*c - a*d), 2*(b*d + a*c)>>,
           <<2*(b*c + a*d), a*a - b*b + c*c - d*d, 2*(c*d - a*b)>>,
           <<2*(b*d - a*c), 2*(c*d + a*b), a*a - b*b - c*c + d*d>> >>

\* openravepy.matrixFromPose(pose)
matrixFromPose(pose) == [R |-> matrixFromQuat(quat_of(pose)), p |-> trans_of(pose)]

\* KinBody.GetTransformPose(): a quaternion of the rotation block followed by the
\* translation.  q and -q both decompose the block; which one the engine hands
\* back is its own choice, so every outcome is kept.
QuatsOfRotation ==
    [R \in {matrixFromQuat(u) : u \in UnitQuats} |->
        {u \in UnitQuats : matrixFromQuat(u) = R}]

GetTransformPose(T) == {q \o T.p : q \in QuatsOfRotation[T.R]}

\* the angles of the grid, as <<cos, sin>>
Angles ==
    {<<c[1], c[2]>> : c \in {a \in (-UnitSq..UnitSq) \X (-UnitSq..UnitSq) :
                                a[1] * a[1] + a[2] * a[2] = UnitSq * UnitSq}}

cos(a) == a[1]

sin(a) == a[2]

\* numpy.arctan2(y, x): the angle of the direction (x, y), 0 for (0, 0)
arctan2(y, x) ==
    IF x = 0 /\ y = 0
    THEN <<UnitSq, 0>>
    ELSE CHOOSE a \in Angles : cos(a) * y = sin(a) * x /\ cos(a) * x + sin(a) * y > 0

\* numpy.arcsin(s): the angle of sine s whose cosine is not negative
arcsin(s) == CHOOSE a \in Angles : sin(a) = s /\ cos(a) >= 0

\* a product of three cosines or sines, as an entry of a rotation block
entry(n) == CHOOSE k \in {n \div (UnitSq * UnitSq)} : k * UnitSq * UnitSq = n

\* rotations.rotation_matrix_from_rpy(roll, pitch, yaw) = Rz(yaw) Ry(pitch) Rx(roll)
rotation_matrix_from_rpy(roll, pitch, yaw) ==
    LET cr == cos(roll)
        sr == sin(roll)
        cp == cos(pitch)
        sp == sin(pitch)
        cy == cos(yaw)
        sy == sin(yaw)
        U == UnitSq
    IN  << <<entry(cy * cp * U), entry(cy * sp * sr - sy * cr * U),
             entry(cy * sp * cr + sy * sr * U)>>,
           <<entry(sy * cp * U), entry(sy * sp * sr + cy * cr * U),
             entry(sy * sp * cr - cy * sr * U)>>,
           <<entry(-sp * U * U), entry(cp * sr * U), entry(cp * cr * U)>> >>

\* rotations.rpy_from_quat(quat)
rpy_from_quat(q) ==
    << arctan2(2 * q[3] * q[4] + 2 * q[1] * q[2],
               q[4] * q[4] - q[3] * q[3] - q[2] * q[2] + q[1] * q[1]),
       arcsin(2 * q[1] * q[3] - 2 * q[2] * q[4]),
       arctan2(2 * q[2] * q[3] + 2 * q[1] * q[4],
               q[2] * q[2] + q[1] * q[1] - q[4] * q[4] - q[3] * q[3]) >>

\* rotations.crossmat(omega)
crossmat(w) ==
    << <<0, -w[3], w[2]>>,
       <<w[3], 0, -w[1]>>,
       <<-w[2], w[1], 0>> >>

(***************************************************************************)
(* Body (body.py).  A reader takes what the engine returned; a writer      *)
(* takes the transform read by self.T and yields the transform handed to   *)
(* SetTransform.                                                           *)
(***************************************************************************)
\* a slip of Body.pose: "pose *= -1" in place of "pose[:4] *= -1"
pose_negating_all(raw) == IF raw[1] < 0 THEN vscale(raw, -1) ELSE raw

\* Body.pose, from the engine's raw pose
pose(raw) ==
    IF raw[1] < 0
    THEN vscale(quat_of(raw), -1) \o trans_of(raw)
    ELSE raw

\* Body.quat
quat(raw) == quat_of(pose(raw))

\* Body.rpy
rpy(raw) == rpy_from_quat(quat(raw))

roll(raw) == rpy(raw)[1]

pitch(raw) == rpy(raw)[2]

yaw(raw) == rpy(raw)[3]

\* Body.set_transform(T): rave.SetTransform(T)
set_transform(cur, T) == T

set_pos(cur, pos) == set_transform(cur, [cur EXCEPT !.p = pos])

set_rotation_matrix(cur, R) == set_transform(cur, [cur EXCEPT !.R = R])

\* a slip of set_x: "T[:3, 3] = x" in place of "T[0, 3] = x"
set_x_all_rows(cur, x) == set_transform(cur, [cur EXCEPT !.p = <<x, x, x>>])

set_x(cur, x) == set_transform(cur, [cur EXCEPT !.p[1] = x])

set_y(cur, y) == set_transform(cur, [cur EXCEPT !.p[2] = y])

set_z(cur, z) == set_transform(cur, [cur EXCEPT !.p[3] = z])

set_rpy(cur, a) ==
    set_transform(cur, [cur EXCEPT !.R = rotation_matrix_from_rpy(a[1], a[2], a[3])])

set_roll(cur, raw, r) == set_rpy(cur, <<r, pitch(raw), yaw(raw)>>)

set_pitch(cur, raw, p) == set_rpy(cur, <<roll(raw), p, yaw(raw)>>)

set_yaw(cur, raw, y) == set_rpy(cur, <<roll(raw), pitch(raw), y>>)

set_pose(cur, ps) == set_transform(cur, matrixFromPose(ps))

set_quat(cur, raw, q) == set_pose(cur, q \o trans_of(pose(raw)))

\* Body.apply_twist(v, omega, dt): set_pos, then set_rotation_matrix on the result
apply_twist(cur, v, omega, dt) ==
    LET T1 == set_pos(cur, vadd(cur.p, vscale(v, dt)))
    IN  set_rotation_matrix(T1, madd(T1.R, mscale(matmul(crossmat(omega), T1.R), dt)))

\* Body.remove(): one env.Remove(self.rave) per call; n counts the calls so far
remove(n) == n + 1

\* Body.__del__(): self.remove()
del(n) == remove(n)

(***************************************************************************)
(* Point (body.py).  The velocity is a numpy array bound to self.__pd; the *)
(* arrays live in a heap so that sharing between the point and its caller  *)
(* is visible.                                                             *)
(***************************************************************************)
HeapIds == 1..4

\* the cell a new array is allocated in
free(h) == CHOOSE i \in HeapIds : h[i] = <<>> /\ \A j \in 1..(i - 1) : h[j] # <<>>

\* a new array holding the value v (the result of an arithmetic expression)
np_new(h, v) == [heap |-> [h EXCEPT ![free(h)] = v], ref |-> free(h)]

\* numpy.array(a) and a.copy(): a new array with the contents of a
np_array(h, a) == np_new(h, h[a])

\* a slip of set_velocity: "self.__pd = pd" keeps the caller's array
set_velocity_sharing(h, arg) == [heap |-> h, ref |-> arg]

\* Point.set_velocity(pd): the array bound to self.__pd afterwards
set_velocity(h, arg) == np_array(h, arg)

\* Point.pd: the array handed to the caller
pd(h, r) == np_array(h, r)

\* reference counting: arrays nobody holds are freed; the two that can stay are
\* renumbered 1 (self.__pd) and 2 (the caller's, when it is another array)
settle(h, p, c) ==
    [ heap |-> [i \in HeapIds |->
                   IF i = 1 THEN h[p]
                   ELSE IF i = 2 /\ c # 0 /\ c # p THEN h[c]
                   ELSE <<>>],
      pd_ref |-> 1,
      caller_ref |-> IF c = 0 THEN 0 ELSE IF c = p THEN 1 ELSE 2 ]

\* a slip of integrate_acceleration: the velocity is updated before the position
integrate_velocity_first(T, v, pdd, dt) ==
    LET v1 == vadd(v, vscale(pdd, dt))
    IN  [ T |-> set_pos(T, vadd(vadd(T.p, vscale(v1, dt)), vscale(half(pdd), dt * dt))),
          v |-> v1 ]

\* Point.integrate_acceleration(pdd, dt), with v the value read by self.pd:
\* the transform written by set_pos and the value handed to set_velocity
integrate_acceleration(T, v, pdd, dt) ==
    [ T |-> set_pos(T, vadd(vadd(T.p, vscale(v, dt)), vscale(half(pdd), dt * dt))),
      v |-> vadd(v, vscale(pdd, dt)) ]

(***************************************************************************)
(* LinkPosTask, LinkPoseTask (tasks/link.py).  A target argument is        *)
(* [kind, arr]: a list or an ndarray with contents arr, a body (it has the *)
(* attributes p and pose), or any other object.  A constructed task is     *)
(* [type, target, arr]: what its pos_residual closure is bound to.         *)
(***************************************************************************)
_oppose_quat == <<-1, -1, -1, -1, 1, 1, 1>>

\* hasattr(target, 'p'), hasattr(target, 'pose')
hasattr(target, name) == target.kind = "body" /\ name \in {"p", "pose"}

\* "if type(target) is list: target = array(target)"
as_array(target) ==
    IF target.kind = "list" THEN [kind |-> "ndarray", arr |-> target.arr] ELSE target

\* numpy's a - b on 1-d arrays: shapes broadcast when equal or when one is (1,)
np_sub(a, b) ==
    IF Len(a) = Len(b) THEN [status |-> "ok", val |-> vsub(a, b)]
    ELSE IF Len(a) = 1 THEN [status |-> "ok", val |-> [i \in 1..Len(b) |-> a[1] - b[i]]]
    ELSE IF Len(b) = 1 THEN [status |-> "ok", val |-> [i \in 1..Len(a) |-> a[i] - b[1]]]
    ELSE [status |-> "raised", val |-> <<>>]

\* numpy's a * b on 1-d arrays, a of length 7
np_mul(a, b) ==
    IF Len(b) = 1 THEN [i \in 1..Len(a) |-> a[i] * b[1]] ELSE vmul(a, b)

\* LinkPosTask.__init__(robot, link, target)
LinkPosTask_init(target) ==
    LET t == as_array(target)
    IN  IF hasattr(t, "p")
        THEN [status |-> "ok",
              task |-> [type |-> "link_pos", target |-> "body", arr |-> <<>>]]
        ELSE IF t.kind = "ndarray"
        THEN [status |-> "ok",
              task |-> [type |-> "link_pos", target |-> "ndarray", arr |-> t.arr]]
        ELSE [status |-> "raised",
              task |-> [type |-> "none", target |-> "none", arr |-> <<>>]]

\* LinkPoseTask.__init__(robot, link, target)
LinkPoseTask_init(target) ==
    LET t == as_array(target)
    IN  IF hasattr(t, "pose")
        THEN [status |-> "ok",
              task |-> [type |-> "link_pose", target |-> "body", arr |-> <<>>]]
        ELSE IF t.kind = "ndarray"
        THEN [status |-> "ok",
              task |-> [type |-> "link_pose", target |-> "ndarray", arr |-> t.arr]]
        ELSE [status |-> "raised",
              task |-> [type |-> "none", target |-> "none", arr |-> <<>>]]

\* a slip of pos_residual: the operands of the difference exchanged
LinkPosTask_pos_residual_swapped(tsk, target_p, link_p) ==
    IF tsk.target = "body"
    THEN np_sub(link_p, target_p) @@ [arr |-> tsk.arr]
    ELSE np_sub(link_p, tsk.arr) @@ [arr |-> tsk.arr]

\* LinkPosTask's pos_residual: "target.p - link.p" / "target - link.p"
LinkPosTask_pos_residual(tsk, target_p, link_p) ==
    IF tsk.target = "body"
    THEN np_sub(target_p, link_p) @@ [arr |-> tsk.arr]
    ELSE np_sub(tsk.arr, link_p) @@ [arr |-> tsk.arr]

\* a slip of the correction: "target *= _oppose_quat" writes into the target
oppose_in_place(t) == [val |-> np_mul(_oppose_quat, t), arr |-> np_mul(_oppose_quat, t)]

\* "_oppose_quat * target": a new array, the operand is left as it is
oppose(t) == [val |-> np_mul(_oppose_quat, t), arr |-> t]

\* the body of both pos_residual closures of LinkPoseTask, t the target's pose
\* (target.pose or the literal) and link_pose the value of link.pose
pose_residual(t, link_pose) ==
    LET residual == np_sub(t, link_pose)
    IN  IF residual.status = "raised"
        THEN residual @@ [arr |-> t]
        ELSE IF dot4(residual.val) > UnitSq
        THEN np_sub(oppose(t).val, link_pose) @@ [arr |-> oppose(t).arr]
        ELSE residual @@ [arr |-> t]

\* LinkPoseTask's pos_residual; for a body target the array that may be
\* written is the one target.pose returned, not the task's
LinkPoseTask_pos_residual(tsk, target_pose, link_pose) ==
    IF tsk.target = "body"
    THEN [pose_residual(target_pose, link_pose) EXCEPT !.arr = tsk.arr]
    ELSE pose_residual(tsk.arr, link_pose)

(***************************************************************************)
(* Inputs the operations are called with.                                  *)
(***************************************************************************)
Bodies == {"link", "target"}

Coords == 0..MaxCoord

Positions == Vec3(Coords)

\* unit quaternions of either sign whose roll, pitch and yaw are angles of the
\* grid: the arguments of the writers of Spec
BodyQuats ==
    { <<One, 0, 0, 0>>, <<-One, 0, 0, 0>>, <<0, One, 0, 0>>, <<0, -One, 0, 0>>,
      <<3, 4, 0, 0>>, <<-3, -4, 0, 0>> }

\* the same with a quaternion whose dot product with the others lies strictly
\* between 0 and 1/2: the targets and link poses of SpecPoseTask
QuatInputs == BodyQuats \cup {<<2, 4, 2, 1>>}

RotInputs == {matrixFromQuat(q) : q \in BodyQuats}

\* the angles 0 and pi
Zero == <<UnitSq, 0>>

Pi == <<-UnitSq, 0>>

HalfTurns == {Zero, Pi}

\* the arguments of set_roll: a half turn or the roll of the quaternion (3, 4, 0, 0)
RollInputs == HalfTurns \cup {<<-7, 24>>}

RpyInputs == {<<r, p, y>> : r \in RollInputs, p \in HalfTurns, y \in HalfTurns}

NoRet == [status |-> "none", val |-> <<>>, raw |-> <<>>]

NoTask == [type |-> "none", target |-> "none", arr |-> <<>>]

\* a body as its constructor leaves it: the KinBody's identity transform, or the
\* position given to Point.__init__ ([0., 0., 0.] by default)
InitTransform == [R |-> Identity3, p |-> zeros3]

\* a writer's step on body b: the transform is written back by one SetTransform
Write(b, T, name) ==
    /\ rave' = [rave EXCEPT ![b] = T]
    /\ last' = name
    /\ ret' = NoRet
    /\ UNCHANGED <<heap, pd_ref, caller_ref, alive, removes, task>>

SetTransform(b, T) ==
    /\ alive
    /\ Write(b, set_transform(rave[b], T), "set_transform")

SetPos(b, pos) ==
    /\ alive
    /\ Write(b, set_pos(rave[b], pos), "set_pos")

SetRotationMatrix(b, R) ==
    /\ alive
    /\ Write(b, set_rotation_matrix(rave[b], R), "set_rotation_matrix")

SetX(b, x) ==
    /\ alive
    /\ Write(b, set_x(rave[b], x), "set_x")

SetY(b, y) ==
    /\ alive
    /\ Write(b, set_y(rave[b], y), "set_y")

SetZ(b, z) ==
    /\ alive
    /\ Write(b, set_z(rave[b], z), "set_z")

SetRpy(b, a) ==
    /\ alive
    /\ Write(b, set_rpy(rave[b], a), "set_rpy")

SetRoll(b, r) ==
    \E raw \in GetTransformPose(rave[b]) :
        /\ alive
        /\ Write(b, set_roll(rave[b], raw, r), "set_roll")

SetPitch(b, r) ==
    \E raw \in GetTransformPose(rave[b]) :
        /\ alive
        /\ Write(b, set_pitch(rave[b], raw, r), "set_pitch")

SetYaw(b, r) ==
    \E raw \in GetTransformPose(rave[b]) :
        /\ alive
        /\ Write(b, set_yaw(rave[b], raw, r), "set_yaw")

SetPose(b, ps) ==
    /\ alive
    /\ Write(b, set_pose(rave[b], ps), "set_pose")

SetQuat(b, q) ==
    \E raw \in GetTransformPose(rave[b]) :
        /\ alive
        /\ Write(b, set_quat(rave[b], raw, q), "set_quat")

\* reading Body.pose: the engine's raw pose is kept beside the value returned
ReadPose(b) ==
    /\ alive
    /\ \E raw \in GetTransformPose(rave[b]) :
          ret' = [status |-> "ok", val |-> pose(raw), raw |-> raw]
    /\ last' = "pose"
    /\ UNCHANGED <<rave, heap, pd_ref, caller_ref, alive, removes, task>>

\* an explicit b.remove()
Remove ==
    /\ alive
    /\ removes < MaxRemove
    /\ removes' = remove(removes)
    /\ last' = "remove"
    /\ ret' = NoRet
    /\ UNCHANGED <<rave, heap, pd_ref, caller_ref, alive, task>>

\* the garbage collector finalizes the object: __del__
Del ==
    /\ alive
    /\ alive' = FALSE
    /\ removes' = del(removes)
    /\ last' = "__del__"
    /\ ret' = NoRet
    /\ UNCHANGED <<rave, heap, pd_ref, caller_ref, task>>

Init ==
    /\ rave = [b \in Bodies |-> InitTransform]
    /\ heap = [i \in HeapIds |-> IF i = 1 THEN zeros3 ELSE <<>>]
    /\ pd_ref = 1
    /\ caller_ref = 0
    /\ alive = TRUE
    /\ removes = 0
    /\ task = NoTask
    /\ last = "init"
    /\ ret = NoRet

(***************************************************************************)
(* Spec: one Body (the link), its readers and writers, and its release.    *)
(***************************************************************************)
Next ==
    \/ \E R \in RotInputs, pos \in Positions : SetTransform("link", [R |-> R, p |-> pos])
    \/ \E pos \in Positions : SetPos("link", pos)
    \/ \E R \in RotInputs : SetRotationMatrix("link", R)
    \/ \E x \in Coords : SetX("link", x)
    \/ \E y \in Coords : SetY("link", y)
    \/ \E z \in Coords : SetZ("link", z)
    \/ \E a \in RpyInputs : SetRpy("link", a)
    \/ \E r \in RollInputs : SetRoll("link", r)
    \/ \E r \in HalfTurns : SetPitch("link", r)
    \/ \E r \in HalfTurns : SetYaw("link", r)
    \/ \E q \in BodyQuats, pos \in Positions : SetPose("link", q \o pos)
    \/ \E q \in BodyQuats : SetQuat("link", q)
    \/ ReadPose("link")
    \/ Remove
    \/ Del

Spec == Init /\ [][Next]_vars

(***************************************************************************)
(* SpecKin, SpecPoint: one Point (the target), its velocity and its        *)
(* integrator.                                                             *)
(***************************************************************************)
KinCoords == -MaxKin..MaxKin

KinBox == Vec3(KinCoords)

Dts == 0..MaxDt

\* even accelerations, on which pdd * .5 is exact
Accels == {<<0, 0, 0>>, <<0, 0, -2>>, <<0, 0, 2>>, <<2, 0, 0>>}

KinVels == {<<0, 0, 0>>, <<0, 0, 1>>, <<1, 0, -1>>}

\* the stored velocity
vel == heap[pd_ref]

Store(m) ==
    /\ heap' = m.heap
    /\ pd_ref' = m.pd_ref
    /\ caller_ref' = m.caller_ref

\* the caller builds an array holding v, calls set_velocity on it and keeps it
SetVelocity(v) ==
    LET h0 == settle(heap, pd_ref, 0)
        a == np_new(h0.heap, v)
        m == set_velocity(a.heap, a.ref)
    IN  /\ alive
        /\ Store(settle(m.heap, m.ref, a.ref))
        /\ last' = "set_velocity"
        /\ ret' = NoRet
        /\ UNCHANGED <<rave, alive, removes, task>>

\* the caller reads pd and keeps the array it gets
ReadPd ==
    LET h0 == settle(heap, pd_ref, 0)
        c == pd(h0.heap, h0.pd_ref)
    IN  /\ alive
        /\ Store(settle(c.heap, h0.pd_ref, c.ref))
        /\ last' = "pd"
        /\ ret' = [status |-> "ok", val |-> c.heap[c.ref], raw |-> <<>>]
        /\ UNCHANGED <<rave, alive, removes, task>>

\* the caller writes into the array it holds: a[i] = x
CallerWrite(i, x) ==
    /\ caller_ref # 0
    /\ heap' = [heap EXCEPT ![caller_ref][i] = x]
    /\ last' = "caller_write"
    /\ ret' = NoRet
    /\ UNCHANGED <<rave, pd_ref, caller_ref, alive, removes, task>>

IntegrateAcceleration(pdd, dt) ==
    LET r == integrate_acceleration(rave["target"], vel, pdd, dt)
        t == np_new(heap, r.v)
        m == set_velocity(t.heap, t.ref)
    IN  /\ alive
        /\ r.T.p \in KinBox
        /\ r.v \in KinBox
        /\ rave' = [rave EXCEPT !["target"] = r.T]
        /\ Store(settle(m.heap, m.ref, caller_ref))
        /\ last' = "integrate_acceleration"
        /\ ret' = NoRet
        /\ UNCHANGED <<alive, removes, task>>

ApplyTwist(b, v, omega, dt) ==
    LET T == apply_twist(rave[b], v, omega, dt)
    IN  /\ alive
        /\ T.p \in KinBox
        /\ \A i \in 1..3, j \in 1..3 :
              T.R[i][j] \in (-MaxDrift * UnitSq)..(MaxDrift * UnitSq)
        /\ Write(b, T, "apply_twist")

NextKin ==
    \/ \E v \in KinVels : SetVelocity(v)
    \/ \E pos \in Positions : SetPos("target", pos)
    \/ \E a \in {<<Zero, Zero, Zero>>, <<Pi, Zero, Zero>>} : SetRpy("target", a)
    \/ \E a \in Accels, dt \in Dts : IntegrateAcceleration(a, dt)

SpecKin == Init /\ [][NextKin]_vars

PointVels == {<<0, 0, 0>>, <<0, 0, 1>>}

PointPoses == {<<3, 4, 0, 0, 0, 1, 0>>}

NextPoint ==
    \/ \E v \in PointVels : SetVelocity(v)
    \/ ReadPd
    \/ \E i \in 1..3 : CallerWrite(i, 1)
    \/ \E dt \in Dts : IntegrateAcceleration(<<0, 0, -2>>, dt)
    \/ \E pos \in {<<0, 0, 0>>, <<1, 0, 0>>} : SetPos("target", pos)
    \/ \E x \in Coords : SetX("target", x)
    \/ \E y \in Coords : SetY("target", y)
    \/ \E z \in Coords : SetZ("target", z)
    \/ \E a \in {<<Zero, Zero, Zero>>, <<Pi, Zero, Zero>>} : SetRpy("target", a)
    \/ \E ps \in PointPoses : SetPose("target", ps)
    \/ \E ps \in PointPoses : SetTransform("target", matrixFromPose(ps))
    \/ \E dt \in Dts : ApplyTwist("target", <<0, 0, 1>>, <<0, 0, 1>>, dt)

SpecPoint == Init /\ [][NextPoint]_vars

(***************************************************************************)
(* SpecPosTask, SpecPoseTask: a link, a target point and one task.         *)
(***************************************************************************)
Construct(r) ==
    /\ task' = IF r.status = "ok" THEN r.task ELSE task
    /\ ret' = [status |-> r.status, val |-> <<>>, raw |-> <<>>]
    /\ UNCHANGED <<rave, heap, pd_ref, caller_ref, alive, removes>>

ConstructLinkPosTask(target) ==
    /\ Construct(LinkPosTask_init(target))
    /\ last' = "LinkPosTask"

ConstructLinkPoseTask(target) ==
    /\ Construct(LinkPoseTask_init(target))
    /\ last' = "LinkPoseTask"

\* one evaluation of the task by the solver: pos_residual(), then jacobian()
\* (a read of the robot's kinematics, whose value is not modelled)
Evaluate ==
    /\ alive
    /\ task.type # "none"
    /\ \E rawl \in GetTransformPose(rave["link"]),
          rawt \in GetTransformPose(rave["target"]) :
          LET e == IF task.type = "link_pos"
                   THEN LinkPosTask_pos_residual(task, rave["target"].p, rave["link"].p)
                   ELSE LinkPoseTask_pos_residual(task, pose(rawt), pose(rawl))
          IN  /\ ret' = [status |-> e.status, val |-> e.val, raw |-> <<>>]
              /\ task' = [task EXCEPT !.arr = e.arr]
    /\ last' = "residual"
    /\ UNCHANGED <<rave, heap, pd_ref, caller_ref, alive, removes>>

Ones(n) == [i \in 1..n |-> 1]

\* literal vectors of a dimension that is not 3: array([0.2, ...])
OddVectors == {Ones(n) : n \in (1..(3 + MaxDim)) \ {3}}

PosTargets ==
    {[kind |-> "body", arr |-> <<>>], [kind |-> "object", arr |-> <<>>],
     [kind |-> "list", arr |-> <<1, 0, 0>>]}
    \cup {[kind |-> "ndarray", arr |-> v] : v \in Positions \cup OddVectors}

NextPosTask ==
    \/ \E t \in PosTargets : ConstructLinkPosTask(t)
    \/ \E t \in PosTargets : ConstructLinkPoseTask(t)
    \/ \E pos \in Positions : SetPos("link", pos)
    \/ \E pos \in Positions : SetPos("target", pos)
    \/ Evaluate

SpecPosTask == Init /\ [][NextPosTask]_vars

\* translations of the poses drawn
PoseTranslations == {<<x, 0, 0>> : x \in Coords}

PoseInputs == {q \o t : q \in QuatInputs, t \in PoseTranslations}

PoseTargets ==
    {[kind |-> "body", arr |-> <<>>], [kind |-> "object", arr |-> <<>>],
     [kind |-> "list", arr |-> <<-One, 0, 0, 0, 1, 0, 0>>]}
    \cup {[kind |-> "ndarray", arr |-> v] : v \in PoseInputs}

NextPoseTask ==
    \/ \E t \in PoseTargets : ConstructLinkPoseTask(t)
    \/ \E t \in {[kind |-> "body", arr |-> <<>>], [kind |-> "ndarray", arr |-> <<1, 0, 0>>]} :
          ConstructLinkPosTask(t)
    \/ \E ps \in PoseInputs : SetPose("link", ps)
    \/ \E ps \in PoseInputs : SetPose("target", ps)
    \/ Evaluate

SpecPoseTask == Init /\ [][NextPoseTask]_vars

(***************************************************************************)
(* Claims settled on Spec.                                                 *)
(***************************************************************************)
linkT == rave["link"]

\* C1: whatever sequence of writers ran before, the vector Body.pose returns
\* has a non-negative scalar component; a raw pose with a negative scalar
\* comes back with its four quaternion components negated and its translation
\* untouched, and any other raw pose comes back as it is.
C1_PoseScalarNonNegative ==
    last = "pose" =>
        /\ ret.val[1] >= 0
        /\ ret.raw[1] < 0 =>
              /\ \A i \in 1..4 : ret.val[i] = -ret.raw[i]
              /\ \A i \in 5..7 : ret.val[i] = ret.raw[i]
        /\ ret.raw[1] >= 0 => ret.val = ret.raw

\* the engine handed back a negative scalar for a rotated, translated body
C1_Witness ==
    /\ last = "pose"
    /\ ret.raw[1] = -3
    /\ ret.val[1] = 3
    /\ trans_of(ret.val) = <<1, 0, 1>>

\* C2: a partial writer changes its targeted component only: set_x/y/z leave the
\* two other coordinates and the rotation block, set_pos leaves the rotation
\* block, and the rotation writers leave the translation.
C2_PartialMutatorsFrame ==
    [][ /\ last' = "set_x" =>
              /\ linkT'.R = linkT.R
              /\ linkT'.p[2] = linkT.p[2]
              /\ linkT'.p[3] = linkT.p[3]
        /\ last' = "set_y" =>
              /\ linkT'.R = linkT.R
              /\ linkT'.p[1] = linkT.p[1]
              /\ linkT'.p[3] = linkT.p[3]
        /\ last' = "set_z" =>
              /\ linkT'.R = linkT.R
              /\ linkT'.p[1] = linkT.p[1]
              /\ linkT'.p[2] = linkT.p[2]
        /\ last' = "set_pos" => linkT'.R = linkT.R
        /\ last' \in {"set_rotation_matrix", "set_rpy", "set_roll", "set_pitch",
                      "set_yaw", "set_quat"} => linkT'.p = linkT.p
      ]_vars

\* set_x has run on a body whose other coordinates and rotation are not the
\* initial ones
C2_Witness ==
    /\ last = "set_x"
    /\ linkT.p = <<0, 1, 1>>
    /\ linkT.R = matrixFromQuat(<<3, 4, 0, 0>>)

\* C7: over the life of a Body the engine's Remove is issued for its handle
\* at most once, and exactly once by the time the object is finalized.
C7_RemoveExactlyOnce ==
    /\ removes <= 1
    /\ ~alive => removes = 1

(***************************************************************************)
(* Claims settled on SpecKin and SpecPoint.                                *)
(***************************************************************************)
targetT == rave["target"]

\* C3: a call integrate_acceleration(a, dt) on a point at p with velocity v
\* leaves it at p + v*dt + a*dt*dt/2 with velocity v + a*dt, both computed from
\* the velocity held before the call; the rotation block is unchanged, and
\* dt = 0 changes neither the transform nor the velocity.
C3_IntegrateAcceleration ==
    [][ \A a \in Accels, dt \in Dts :
          IntegrateAcceleration(a, dt) =>
              /\ \A i \in 1..3 :
                    /\ 2 * targetT'.p[i] =
                          2 * targetT.p[i] + 2 * vel[i] * dt + a[i] * dt * dt
                    /\ vel'[i] = vel[i] + a[i] * dt
              /\ targetT'.R = targetT.R
              /\ dt = 0 => (rave' = rave /\ vel' = vel)
      ]_vars

\* a moving, rotated point has been integrated: from velocity (1, 0, -1) at
\* (0, 1, 0) under a = (0, 0, 2) for dt = 1
C3_Witness ==
    /\ last = "integrate_acceleration"
    /\ targetT.p = <<1, 1, 0>>
    /\ vel = <<1, 0, 1>>
    /\ targetT.R = rotation_matrix_from_rpy(Pi, Zero, Zero)

\* C10: the velocity is zero after construction and changes only in
\* set_velocity and integrate_acceleration: the writers of the transform leave
\* it, set_velocity leaves the transform, and writing into the array returned by
\* pd or into the array that was passed to set_velocity leaves it.
C10_VelocityFrame ==
    /\ vel = zeros3
    /\ [][ /\ vel' # vel => last' \in {"set_velocity", "integrate_acceleration"}
           /\ last' \in {"caller_write", "pd", "set_pos", "set_x", "set_y", "set_z",
                         "set_rpy", "set_pose", "set_transform", "apply_twist"}
                 => vel' = vel
           /\ last' = "set_velocity" => rave' = rave
         ]_vars

\* the caller has written into the array it holds, which now differs from the
\* stored velocity
C10_Witness ==
    /\ last = "caller_write"
    /\ caller_ref # 0
    /\ heap[caller_ref] = <<1, 0, 1>>
    /\ vel = <<0, 0, 1>>

(***************************************************************************)
(* Claims settled on SpecPosTask and SpecPoseTask.                         *)
(***************************************************************************)
\* the values link.pose and target.pose can take in the current state
LinkPoses == {pose(raw) : raw \in GetTransformPose(linkT)}

TargetPoses ==
    IF task.target = "body"
    THEN {pose(raw) : raw \in GetTransformPose(targetT)}
    ELSE {task.arr}

PoseTaskEvaluated ==
    /\ last = "residual"
    /\ task.type = "link_pose"
    /\ task.target = "ndarray" => Len(task.arr) = 7

\* C4: the residual a LinkPoseTask with literal target P has just returned is
\* the residual a LinkPoseTask built with P' (the quaternion of P negated, the
\* same translation) returns against the same link pose.
C4_QuaternionSignInvariance ==
    (PoseTaskEvaluated /\ task.target = "ndarray") =>
        \E lp \in LinkPoses :
            pose_residual(np_mul(_oppose_quat, task.arr), lp).val = ret.val

\* C5: the orientation block of the residual a LinkPoseTask has just returned is
\* the shorter of (target quaternion - link quaternion) and
\* (-target quaternion - link quaternion), and its translation block is
\* target translation - link translation.
C5_ShorterResidual ==
    PoseTaskEvaluated =>
        \E lp \in LinkPoses, tp \in TargetPoses :
            LET same == vsub(quat_of(tp), quat_of(lp))
                opposite == vsub(vscale(quat_of(tp), -1), quat_of(lp))
                got == quat_of(ret.val)
            IN  /\ got \in {same, opposite}
                /\ dot4(got) <= dot4(same)
                /\ dot4(got) <= dot4(opposite)
                /\ trans_of(ret.val) = vsub(trans_of(tp), trans_of(lp))

\* C6: a task exists only for a target that is a body or a literal vector of
\* the task's dimension (3 for LinkPosTask, 7 for LinkPoseTask), so that no
\* evaluation of a residual raises.
C6_ConfigurationErrorsAtConstruction ==
    /\ (task.type = "link_pos" /\ task.target = "ndarray") => Len(task.arr) = 3
    /\ (task.type = "link_pose" /\ task.target = "ndarray") => Len(task.arr) = 7
    /\ last = "residual" => ret.status = "ok"

\* C8: an evaluation of a task leaves the link's transform, the target body's
\* transform and the literal target's contents as they were.
C8_EvaluationWritesNothing ==
    [][ last' = "residual" => (rave' = rave /\ task' = task) ]_vars

\* a pose task whose literal target has the opposite quaternion sign of the
\* link's has been evaluated on the branch that negates the target
C8_Witness ==
    /\ last = "residual"
    /\ task.type = "link_pose"
    /\ task.target = "ndarray"
    /\ task.arr = <<-3, -4, 0, 0, 1, 0, 0>>
    /\ ret.val = <<0, 0, 0, 0, 1, 0, 0>>

\* C9: the residual a LinkPosTask has just returned is the target position
\* (the body's current one, or the literal) minus the link's current position.
C9_PosResidualIsLive ==
    ( /\ last = "residual"
      /\ task.type = "link_pos"
      /\ task.target = "ndarray" => Len(task.arr) = 3 ) =>
        LET t == IF task.target = "body" THEN targetT.p ELSE task.arr
        IN  /\ ret.status = "ok"
            /\ Len(ret.val) = 3
            /\ \A i \in 1..3 : ret.val[i] = t[i] - linkT.p[i]

\* a task bound to the target body has been evaluated after the body and the
\* link were moved
C9_Witness ==
    /\ last = "residual"
    /\ task.type = "link_pos"
    /\ task.target = "body"
    /\ targetT.p = <<1, 0, 0>>
    /\ linkT.p = <<0, 1, 0>>
    /\ ret.val = <<1, -1, 0>>

====
